---- MODULE Spec2Model ----
(***************************************************************************)
(* Model of wasm-paths (src/wasm-paths/src/lib.rs): the lazily initialised *)
(* AppState singleton, get_paths / resolve_input (bidi paragraphs, font    *)
(* fallback), shaping into fragments, greedy line wrapping                 *)
(* (ParagraphInfo::new), line placement (perform_layout_on_paragraphs) and *)
(* GlyphPath::translate.                                                   *)
(*                                                                         *)
(* Numbers.  f64 values are modelled by exact integers: the model's faces  *)
(* have units_per_em = UnitsPerEm and the model's font sizes are multiples *)
(* of 4, so that size / upem and 1.25 * size are whole numbers.  i32       *)
(* arguments keep their 32-bit width (I32Add).  Indices are 0-based as in  *)
(* the source; a sequence element i of the source is element i + 1 here.   *)
(***************************************************************************)
EXTENDS Integers, Sequences, FiniteSets, TLC

VARIABLES
    ONCE,               \* app_state::ONCE: "incomplete" | "running" | "complete"
    SINGLETON,          \* app_state::SINGLETON: the MaybeUninit<AppState> cell
    documents,          \* the Input values AppState::new builds into `inputs`
    overflow_checks,    \* build profile: TRUE = i32 overflow panics, FALSE = wraps
    pc,                 \* per caller: position inside get_paths
    call,               \* per caller: the arguments of its get_paths call
    state_ref,          \* per caller: what `state` (app_state()'s result) refers to
    layout_paragraps,   \* per caller: resolve_input's vector of (text, font, is_rtl)
    shaped,             \* per caller: perform_layout_on_paragraphs' shaped_paragraphs and placements
    result,             \* per caller: the Vec<String> get_paths returned
    news,               \* number of completed AppState::new() calls
    shaped_fragments,   \* ParagraphInfo::new argument
    box_w,              \* input_transform.w, from which max_line_length is computed
    max_line_length,    \* ParagraphInfo::new argument
    paragraph,          \* ParagraphInfo::new result
    glyph,              \* a GlyphPath being translated
    translations        \* the translate() calls made on `glyph`, with the string before each

vars == <<ONCE, SINGLETON, documents, overflow_checks, pc, call, state_ref,
          layout_paragraps, shaped, result, news,
          box_w, shaped_fragments, max_line_length, paragraph, glyph, translations>>

progVars == <<ONCE, SINGLETON, documents, overflow_checks, pc, call, state_ref,
              layout_paragraps, shaped, result, news>>
wrapVars == <<box_w, shaped_fragments, max_line_length, paragraph>>
glyphVars == <<glyph, translations>>

(***************************************************************************)
(* Bounds of the model.                                                    *)
(***************************************************************************)
MaxFragments == 4       \* longest fragment list handed to ParagraphInfo::new
MaxLength == 3          \* largest fragment length handed to ParagraphInfo::new
MaxLineLength == 4      \* largest max_line_length handed to ParagraphInfo::new

Max(a, b) == IF a >= b THEN a ELSE b

RECURSIVE SumLengths(_, _, _)
\* Sum of fragment lengths of fragments[from .. to - 1] (0-based, end-exclusive).
SumLengths(fragments, from, to) ==
    IF from >= to THEN 0
    ELSE fragments[from + 1].length + SumLengths(fragments, from + 1, to)

(***************************************************************************)
(* ParagraphInfo::new (lib.rs 540-582).                                    *)
(***************************************************************************)
LineInfo(first, last, len, next) ==
    [first_fragment_index |-> first, last_fragment_index |-> last,
     line_length |-> len, has_next_line |-> next]

\* lines.last_mut().unwrap() updated by f
UpdateLast(lines, f) == [lines EXCEPT ![Len(lines)] = f]

\* The comparison of line 556.
ReachesMax(current_line_length, max) == current_line_length >= max
Exceeds(current_line_length, max) == current_line_length > max

\* The test of line 559: only fragment 0 is kept on an over-full line.
IsFirstOrSecond(i) == i <= 1
KeepsOnLine(i) == i <= 0

\* line 563: the first fragment of the line opened at fragment i
AfterFragment(i) == i + 1
NewLineFirst(i) == i

\* The value current_line_length restarts from at line 557.
RestartLength(fragment_length) == fragment_length

\* The loop of lines 553-574, from fragment i on.
RECURSIVE WrapLoop(_, _, _, _, _)
WrapLoop(fragments, max, i, lines, current_line_length) ==
    IF i >= Len(fragments) THEN lines
    ELSE
        LET fragment == fragments[i + 1]
            added == current_line_length + fragment.length
            last == lines[Len(lines)]
        IN  IF Exceeds(added, max)
            THEN IF ~KeepsOnLine(i)
                 THEN WrapLoop(fragments, max, i + 1,
                        Append(UpdateLast(lines,
                                 [last EXCEPT !.last_fragment_index = i,
                                              !.has_next_line = TRUE]),
                               LineInfo(NewLineFirst(i), i, fragment.length, FALSE)),
                        RestartLength(fragment.length))
                 ELSE WrapLoop(fragments, max, i + 1,
                        UpdateLast(lines,
                            [last EXCEPT !.line_length = RestartLength(fragment.length)]),
                        RestartLength(fragment.length))
            ELSE WrapLoop(fragments, max, i + 1,
                    UpdateLast(lines,
                        [last EXCEPT !.line_length = @ + fragment.length]),
                    added)

ParagraphInfoNew(fragments, max, is_rtl) ==
    [shaped_fragments |-> fragments,
     lines |-> WrapLoop(fragments, max, 0, <<LineInfo(0, 0, 0, FALSE)>>, 0),
     is_rtl |-> is_rtl]

\* The fragment range of a line as perform_layout_on_paragraphs reads it
\* (lib.rs 270-275): [start, end).
LineStart(line) == line.first_fragment_index
LineEnd(p, line) ==
    IF line.has_next_line THEN line.last_fragment_index
    ELSE Len(p.shaped_fragments)


(***************************************************************************)
(* Text.  A text is a sequence of characters; byte offsets are those of    *)
(* its UTF-8 encoding.  The characters of the model:                       *)
(*   "LF"    U+000A, 1 byte, bidi class B (paragraph separator)            *)
(*   "PS"    U+2029, 3 bytes, bidi class B (paragraph separator)           *)
(*   "SP"    U+0020, 1 byte, white space, empty outline                    *)
(*   "alef"  U+05D0, 2 bytes, bidi class R                                 *)
(*   any other name: a Latin letter, 1 byte, bidi class L                  *)
(***************************************************************************)
Utf8Len(c) == IF c = "PS" THEN 3 ELSE IF c = "alef" THEN 2 ELSE 1
BidiClass(c) ==
    IF c \in {"LF", "PS"} THEN "B"
    ELSE IF c = "SP" THEN "WS"
    ELSE IF c = "alef" THEN "R" ELSE "L"

RECURSIVE ByteLen(_)
\* str::len(): the number of bytes of a text
ByteLen(text) == IF text = <<>> THEN 0 ELSE Utf8Len(Head(text)) + ByteLen(Tail(text))

\* Byte offset of the start of character k (1-based); k = Len + 1 gives the end.
ByteOffset(text, k) == ByteLen(SubSeq(text, 1, k - 1))

\* str::is_char_boundary
IsCharBoundary(text, b) == \E k \in 1..(Len(text) + 1) : ByteOffset(text, k) = b

\* &text[a..b]: defined (no panic) when a <= b and both are char boundaries.
SliceOk(text, a, b) == a <= b /\ IsCharBoundary(text, a) /\ IsCharBoundary(text, b)
Slice(text, a, b) ==
    LET ka == CHOOSE k \in 1..(Len(text) + 1) : ByteOffset(text, k) = a
        kb == CHOOSE k \in 1..(Len(text) + 1) : ByteOffset(text, k) = b
    IN  SubSeq(text, ka, kb - 1)

\* str::ends_with("\n")
EndsWithNewline(text) == text # <<>> /\ text[Len(text)] = "LF"

(***************************************************************************)
(* unicode_bidi::BidiInfo::new: the paragraphs of a text, each with its    *)
(* byte range (end-exclusive, the separator included) and its level.       *)
(***************************************************************************)
\* The level of a paragraph: right-to-left iff its first strong character is R.
ParagraphIsRtl(chars) ==
    LET strong == {k \in 1..Len(chars) : BidiClass(chars[k]) \in {"L", "R"}}
    IN  strong # {} /\
        BidiClass(chars[CHOOSE k \in strong : \A j \in strong : k <= j]) = "R"

RECURSIVE BidiParagraphs(_, _, _)
\* paragraphs of text from character `from` on (1-based), `k` the scan position
BidiParagraphs(text, from, k) ==
    IF k > Len(text)
    THEN IF from <= Len(text)
         THEN << [range |-> [start |-> ByteOffset(text, from), end |-> ByteLen(text)],
                  is_rtl |-> ParagraphIsRtl(SubSeq(text, from, Len(text)))] >>
         ELSE <<>>
    ELSE IF BidiClass(text[k]) = "B"
         THEN << [range |-> [start |-> ByteOffset(text, from),
                             end |-> ByteOffset(text, k + 1)],
                  is_rtl |-> ParagraphIsRtl(SubSeq(text, from, k))] >>
              \o BidiParagraphs(text, k + 1, k + 1)
         ELSE BidiParagraphs(text, from, k + 1)

BidiInfoNew(text) == [paragraphs |-> BidiParagraphs(text, 1, 1)]

(***************************************************************************)
(* icu LineSegmenter::segment_str: the break positions of a text, as byte  *)
(* offsets: 0, every position after a run of spaces, and the end.          *)
(***************************************************************************)
SegmentStr(text) ==
    LET inner == {k \in 2..Len(text) : text[k - 1] = "SP" /\ text[k] # "SP"}
        cuts == {1} \cup inner \cup (IF text = <<>> THEN {} ELSE {Len(text) + 1})
        Ordered(S) == CHOOSE q \in [1..Cardinality(S) -> S] :
                        \A i, j \in 1..Cardinality(S) : i < j => q[i] < q[j]
    IN  [n \in 1..Cardinality(cuts) |-> ByteOffset(text, Ordered(cuts)[n])]

(***************************************************************************)
(* Geometry: glam::DVec2 and the scale-and-translate DAffine2 values the   *)
(* program builds.                                                         *)
(***************************************************************************)
DVec2(x, y) == [x |-> x, y |-> y]
VAdd(p, q) == DVec2(p.x + q.x, p.y + q.y)

\* translation * scale * translation(offset), applied to p (lib.rs 374-376)
DAffine2(translation, scale, offset) ==
    [translation |-> translation, scale |-> scale, offset |-> offset]
TransformPoint2(t, p) ==
    DVec2(t.translation.x + t.scale.x * (p.x + t.offset.x),
          t.translation.y + t.scale.y * (p.y + t.offset.y))

\* face.units_per_em() of the model's faces
UnitsPerEm == 1

\* from_font_space_to_screen_space (lib.rs 392-400): scale (to_px, -to_px)
FromFontSpaceToScreenSpace(text_size) ==
    LET to_px == text_size \div UnitsPerEm
    IN  DAffine2(DVec2(0, 0), DVec2(to_px, 0 - to_px), DVec2(0, 0))

(***************************************************************************)
(* Path commands and path strings (lib.rs 435-525).                        *)
(***************************************************************************)
PathCmd(op, pts) == [op |-> op, pts |-> pts]

\* format!("{}", f64) of a whole number
Fmt(v) == ToString(v)
FmtPoint(p) == Fmt(p.x) \o " " \o Fmt(p.y)

\* The text one command contributes to svg_path_string.
FormatCmd(cmd) ==
    IF cmd.op = "Z" THEN "Z "
    ELSE IF cmd.op \in {"M", "L"} THEN cmd.op \o FmtPoint(cmd.pts[1]) \o " "
    ELSE IF cmd.op = "Q"
         THEN "Q" \o FmtPoint(cmd.pts[1]) \o "," \o FmtPoint(cmd.pts[2]) \o " "
    ELSE "C" \o FmtPoint(cmd.pts[1]) \o "," \o FmtPoint(cmd.pts[2]) \o ","
             \o FmtPoint(cmd.pts[3]) \o " "

RECURSIVE FormatCmds(_)
FormatCmds(cmds) ==
    IF cmds = <<>> THEN "" ELSE FormatCmd(Head(cmds)) \o FormatCmds(Tail(cmds))

MapPoints(cmd, F(_)) == PathCmd(cmd.op, [k \in 1..Len(cmd.pts) |-> F(cmd.pts[k])])

\* The outline of a glyph in font units, as ttf_parser hands it to the
\* OutlineBuilder: white space and separators have no contours.
Outline(glyph_id) ==
    IF glyph_id \in {"SP", "LF", "PS"} THEN <<>>
    ELSE IF glyph_id = "o"
         THEN << PathCmd("M", <<DVec2(0, 0)>>),
                 PathCmd("Q", <<DVec2(1, 0), DVec2(1, 1)>>),
                 PathCmd("C", <<DVec2(1, 2), DVec2(0, 2), DVec2(0, 1)>>),
                 PathCmd("Z", <<>>) >>
    ELSE << PathCmd("M", <<DVec2(0, 0)>>),
            PathCmd("L", <<DVec2(1, 0)>>),
            PathCmd("L", <<DVec2(1, 2)>>),
            PathCmd("Z", <<>>) >>

\* hb::shape: one glyph per character, in visual order; advances in font units.
GlyphPosition(c) ==
    [glyph_id |-> c, x_advance |-> IF c = "W" THEN 2 ELSE 1, y_advance |-> 0,
     x_offset |-> 0, y_offset |-> 0]
Reverse(s) == [k \in 1..Len(s) |-> s[Len(s) + 1 - k]]
Shape(current_text, is_rtl) ==
    LET logical == [k \in 1..Len(current_text) |-> GlyphPosition(current_text[k])]
    IN  IF is_rtl THEN Reverse(logical) ELSE logical

\* face.outline_glyph(glyph_id, &mut glyph_path): the OutlineBuilder callbacks
\* (lib.rs 452-494) transform each point, append its text and push the command.
OutlineGlyph(glyph_path, glyph_id) ==
    LET cmds == [k \in 1..Len(Outline(glyph_id)) |->
                    MapPoints(Outline(glyph_id)[k],
                              LAMBDA p : TransformPoint2(glyph_path.transform, p))]
    IN  [glyph_path EXCEPT !.cmds = cmds, !.svg_path_string = FormatCmds(cmds)]

\* GlyphPath::translate (lib.rs 496-525): the string is rebuilt from the stored
\* commands, each point moved by offset; the commands themselves are not changed.
TranslateOnto(cmds, old_string, offset) ==
    old_string \o FormatCmds([k \in 1..Len(cmds) |->
                                MapPoints(cmds[k], LAMBDA p : VAdd(p, offset))])
TranslatedString(cmds, old_string, offset) ==
    FormatCmds([k \in 1..Len(cmds) |-> MapPoints(cmds[k], LAMBDA p : VAdd(p, offset))])

Translate(glyph_path, offset) ==
    [glyph_path EXCEPT !.svg_path_string =
        TranslatedString(glyph_path.cmds, glyph_path.svg_path_string, offset)]

RECURSIVE PerformShapingFrom(_, _, _, _)
\* perform_shaping (lib.rs 348-390), from glyph k on with the running baseline
PerformShapingFrom(glyph_buffer, k, baseline, size) ==
    IF k > Len(glyph_buffer) THEN <<>>
    ELSE
        LET g == glyph_buffer[k]
            font_transform == FromFontSpaceToScreenSpace(size)
            advance == TransformPoint2(font_transform, DVec2(g.x_advance, g.y_advance))
            glyph_transform == DAffine2(baseline, font_transform.scale,
                                        DVec2(g.x_offset, g.y_offset))
            glyph_path == [svg_path_string |-> "", transform |-> glyph_transform,
                           cmds |-> <<>>, advance_x |-> advance.x]
        IN  <<OutlineGlyph(glyph_path, g.glyph_id)>>
            \o PerformShapingFrom(glyph_buffer, k + 1, VAdd(baseline, advance), size)

PerformShaping(glyph_buffer, size) ==
    PerformShapingFrom(glyph_buffer, 1, DVec2(0, 0), size)

RECURSIVE SumAdvances(_)
SumAdvances(glyphs) ==
    IF glyphs = <<>> THEN 0 ELSE Head(glyphs).advance_x + SumAdvances(Tail(glyphs))

\* ShapedFragment::new (lib.rs 423-433)
ShapedFragmentNew(glyphs) == [glyphs |-> glyphs, length |-> SumAdvances(glyphs)]

\* The test of line 339: empty segments are not kept.
KeepsSegment(current_text) == current_text # <<>>

RECURSIVE ShapeSegments(_, _, _, _, _, _)
\* shape_static_text (lib.rs 304-346), from break n on
ShapeSegments(text, breaks, n, prev_segment_index, size, is_rtl) ==
    IF n > Len(breaks) THEN <<>>
    ELSE
        LET segment == breaks[n]
            current_text == Slice(text, prev_segment_index, segment)
            shaped_fragment ==
                ShapedFragmentNew(PerformShaping(Shape(current_text, is_rtl), size))
        IN  (IF KeepsSegment(current_text) THEN <<shaped_fragment>> ELSE <<>>)
            \o ShapeSegments(text, breaks, n + 1, segment, size, is_rtl)

ShapeStaticText(text, size, is_rtl) ==
    ShapeSegments(text, SegmentStr(text), 1, 0, size, is_rtl)


(***************************************************************************)
(* i32 arithmetic: x + w of line 263 is an i32 addition.  With overflow    *)
(* checks (debug profile) an overflowing addition panics, without them     *)
(* (release profile) it wraps modulo 2^32.                                 *)
(***************************************************************************)
MaxI32 == 2147483647
MinI32 == (0 - MaxI32) - 1

I32AddOverflows(a, b) ==
    \/ b > 0 /\ a > MaxI32 - b
    \/ b < 0 /\ a < MinI32 - b

\* a + b modulo 2^32, computed without leaving the 32-bit range
I32Add(a, b) ==
    IF b > 0 /\ a > MaxI32 - b THEN (a - MaxI32 - 1) + (b - MaxI32 - 1)
    ELSE IF b < 0 /\ a < MinI32 - b THEN (a + MaxI32 + 1) + (b + MaxI32 + 1)
    ELSE a + b

(***************************************************************************)
(* perform_layout_on_paragraphs (lib.rs 234-302).                          *)
(***************************************************************************)
PAD == 12

\* line 240: 1.25 * size (the model's sizes are multiples of 4)
LineHeight(size) == (5 * size) \div 4

\* line 241: (w - 2 * PAD).max(0.0)
UnclampedLineLength(w) == w - 2 * PAD
MaxLineLengthOf(w) == Max(w - 2 * PAD, 0)

\* lines 261-268: the x the running baseline of a line starts from
AnchorX(input_transform, is_rtl) ==
    IF is_rtl THEN I32Add(input_transform.x, input_transform.w) - PAD
    ELSE input_transform.x + PAD

\* lines 278-282: where a fragment is drawn
NewBaselineX(is_rtl, baseline_x, length) ==
    IF is_rtl THEN baseline_x - length ELSE baseline_x

\* lines 290-294: the running x after a fragment
NextBaselineX(is_rtl, new_baseline_x, length) ==
    IF is_rtl THEN new_baseline_x ELSE new_baseline_x + length

\* lines 285-288: every glyph of a fragment is translated and its string pushed
SkipEmptyPaths(glyphs, offset) ==
    LET all == [k \in 1..Len(glyphs) |-> Translate(glyphs[k], offset).svg_path_string]
    IN  SelectSeq(all, LAMBDA str : str # "")
GlyphPaths(glyphs, offset) ==
    [k \in 1..Len(glyphs) |-> Translate(glyphs[k], offset).svg_path_string]

RECURSIVE PlaceFragments(_, _, _, _, _, _)
\* lines 277-295 for fragments[start .. end - 1]: the strings pushed, where each
\* fragment was drawn, and the final running x
PlaceFragments(fragments, start, end, is_rtl, baseline_x, baseline_y) ==
    IF start >= end
    THEN [paths |-> <<>>, drawn |-> <<>>, x |-> baseline_x]
    ELSE
        LET fragment == fragments[start + 1]
            new_baseline_x == NewBaselineX(is_rtl, baseline_x, fragment.length)
            offset == DVec2(new_baseline_x, baseline_y)
            rest == PlaceFragments(fragments, start + 1, end, is_rtl,
                        NextBaselineX(is_rtl, new_baseline_x, fragment.length),
                        baseline_y)
        IN  [paths |-> GlyphPaths(fragment.glyphs, offset) \o rest.paths,
             drawn |-> <<[offset |-> offset, length |-> fragment.length]>> \o rest.drawn,
             x |-> rest.x]

\* line 297: the vertical cursor after a line
NoAdvance(current_height, line_height) == current_height
NextHeight(current_height, line_height) == current_height + line_height

RECURSIVE PlaceLines(_, _, _, _)
\* lines 260-298 for the lines k.. of paragraph p
PlaceLines(p, k, input_transform, current_height) ==
    IF k > Len(p.lines)
    THEN [paths |-> <<>>, placed |-> <<>>, current_height |-> current_height]
    ELSE
        LET line == p.lines[k]
            anchor == AnchorX(input_transform, p.is_rtl)
            here == PlaceFragments(p.shaped_fragments, LineStart(line), LineEnd(p, line),
                                   p.is_rtl, anchor, current_height)
            rest == PlaceLines(p, k + 1, input_transform,
                        NextHeight(current_height, LineHeight(input_transform.size)))
        IN  [paths |-> here.paths \o rest.paths,
             placed |-> <<[start |-> LineStart(line), end |-> LineEnd(p, line),
                           anchor |-> DVec2(anchor, current_height),
                           drawn |-> here.drawn, final_x |-> here.x]>> \o rest.placed,
             current_height |-> rest.current_height]

RECURSIVE PlaceParagraphs(_, _, _, _)
\* lines 257-299 for the paragraphs n..
PlaceParagraphs(shaped_paragraphs, n, input_transform, current_height) ==
    IF n > Len(shaped_paragraphs)
    THEN [paths |-> <<>>, placed |-> <<>>]
    ELSE
        LET here == PlaceLines(shaped_paragraphs[n], 1, input_transform, current_height)
            rest == PlaceParagraphs(shaped_paragraphs, n + 1, input_transform,
                                    here.current_height)
        IN  [paths |-> here.paths \o rest.paths,
             placed |-> <<here.placed>> \o rest.placed]

\* The i32 addition of line 263 is evaluated for every line of a right-to-left
\* paragraph (every paragraph has a line): with overflow checks it panics.
LayoutPanics(input_transform, paragraphs, checks) ==
    /\ checks
    /\ I32AddOverflows(input_transform.x, input_transform.w)
    /\ \E n \in 1..Len(paragraphs) : paragraphs[n].is_rtl

PerformLayoutOnParagraphs(input_transform, paragraphs) ==
    LET max == MaxLineLengthOf(input_transform.w)
        shaped_paragraphs ==
            [n \in 1..Len(paragraphs) |->
                ParagraphInfoNew(
                    ShapeStaticText(paragraphs[n].text, input_transform.size,
                                    paragraphs[n].is_rtl),
                    max, paragraphs[n].is_rtl)]
        current_height == input_transform.y + PAD + LineHeight(input_transform.size)
        out == PlaceParagraphs(shaped_paragraphs, 1, input_transform, current_height)
    IN  [max_line_length |-> max, shaped_paragraphs |-> shaped_paragraphs,
         placed |-> out.placed, result |-> out.paths]


(***************************************************************************)
(* AppState (lib.rs 23-30, 100-183).                                       *)
(***************************************************************************)
GLOBAL_FALLBACK_FONT == "pt"

\* A Font: the index of its bytes in FONT_DATA and the wght variation set on its face.
Font(data, wght) == [raw_data |-> data, wght |-> wght]

\* The registry AppState::new builds (lines 102-143).
FontRegistry ==
    [id \in {"pt", "seoul", "roboto", "roboto-italic", "noto"} |->
        IF id = "pt" THEN Font(0, "default")
        ELSE IF id = "seoul" THEN Font(1, "default")
        ELSE IF id = "roboto" THEN Font(2, "400")
        ELSE IF id = "roboto-italic" THEN Font(3, "600")
        ELSE Font(4, "400")]

Input(text, paragraphs_fonts, fallback_font) ==
    [text |-> text, paragraphs_fonts |-> paragraphs_fonts,
     horizontal_alignment |-> "Normal", vertical_alignment |-> "Normal",
     fallback_font |-> fallback_font]

\* MaybeUninit::uninit()
Uninit == [initialized |-> FALSE]

\* AppState::new(), written into SINGLETON (lines 176-182, 411)
AppStateNew(inputs) ==
    [initialized |-> TRUE, fonts |-> FontRegistry, inputs |-> inputs,
     last_input |-> 0, last_text_size |-> 16, already_performed_layout |-> FALSE]

(***************************************************************************)
(* resolve_input (lib.rs 185-232).                                         *)
(***************************************************************************)
\* HashMap::get: an Option, here a sequence of at most one Font
FontsGet(fonts, id) == IF id \in DOMAIN fonts THEN <<fonts[id]>> ELSE <<>>

\* lines 211-227
FallbackFirst(fonts, assigned, fallback) ==
    LET font == FontsGet(fonts, fallback)
        second == IF font = <<>> THEN FontsGet(fonts, assigned) ELSE font
    IN  IF second # <<>> THEN second[1] ELSE FontsGet(fonts, GLOBAL_FALLBACK_FONT)[1]
ResolveFont(fonts, assigned, fallback) ==
    LET font == FontsGet(fonts, assigned)
        second == IF font = <<>> THEN FontsGet(fonts, fallback) ELSE font
    IN  IF second # <<>> THEN second[1] ELSE FontsGet(fonts, GLOBAL_FALLBACK_FONT)[1]

\* lines 199-208: the byte range of the displayed text of paragraph i (0-based)
\* of n paragraphs
DisplayRange(text, line, i, n) ==
    IF i = n - 1
    THEN IF EndsWithNewline(Slice(text, line.start, line.end))
         THEN [start |-> line.start, end |-> line.end - 1]
         ELSE line
    ELSE [start |-> line.start, end |-> line.end - 1]

\* What makes the body of the loop of lines 197-229 panic for paragraph i:
\* a slice that does not end on a char boundary, or no font entry for i.
ParagraphPanics(doc, line, i, n) ==
    LET r == DisplayRange(doc.text, line, i, n)
    IN  \/ ~SliceOk(doc.text, r.start, r.end)
        \/ i >= Len(doc.paragraphs_fonts)

\* One element of layout_paragraps (line 228)
LayoutParagraph(fonts, doc, paragraph_info, i, n) ==
    LET r == DisplayRange(doc.text, paragraph_info.range, i, n)
    IN  [text |-> Slice(doc.text, r.start, r.end),
         font |-> ResolveFont(fonts, doc.paragraphs_fonts[i + 1], doc.fallback_font),
         is_rtl |-> paragraph_info.is_rtl]

NoLayout == [max_line_length |-> 0, shaped_paragraphs |-> <<>>, placed |-> <<>>,
             result |-> <<>>]

\* The outcome of state.resolve_input(input_transform, input): a panic, or the
\* paragraphs built, the layout made of them and the strings returned.
ResolveInput(state, input_transform, input, checks) ==
    IF input >= Len(state.inputs)
    THEN [panic |-> TRUE, layout_paragraps |-> <<>>, layout |-> NoLayout]
    ELSE
        LET doc == state.inputs[input + 1]
            bidi_info == BidiInfoNew(doc.text)
            n == Len(bidi_info.paragraphs)
        IN  IF \E i \in 0..(n - 1) :
                    ParagraphPanics(doc, bidi_info.paragraphs[i + 1].range, i, n)
            THEN [panic |-> TRUE, layout_paragraps |-> <<>>, layout |-> NoLayout]
            ELSE
                LET built == [k \in 1..n |->
                        LayoutParagraph(state.fonts, doc, bidi_info.paragraphs[k], k - 1, n)]
                IN  IF LayoutPanics(input_transform, built, checks)
                    THEN [panic |-> TRUE, layout_paragraps |-> built, layout |-> NoLayout]
                    ELSE [panic |-> FALSE, layout_paragraps |-> built,
                          layout |-> PerformLayoutOnParagraphs(input_transform, built)]


(***************************************************************************)
(* get_paths and app_state (lib.rs 40-46, 403-416), per caller.            *)
(***************************************************************************)
Callers == DOMAIN pc

NoCall == [x |-> 0, y |-> 0, w |-> 0, h |-> 0, size |-> 0, input |-> 0]

\* line 43
InputTransform(c) == [x |-> c.x, y |-> c.y, w |-> c.w, h |-> c.h, size |-> c.size]

\* Once::call_once runs its closure only from the incomplete state and lets a
\* caller pass only once the closure has completed.
OnceWasStarted(once) == once # "incomplete"
OnceIsCompleted(once) == once = "complete"

\* get_paths is entered with arguments c.
GetPaths(t, c) ==
    /\ pc[t] = "idle"
    /\ pc' = [pc EXCEPT ![t] = "app_state"]
    /\ call' = [call EXCEPT ![t] = c]
    /\ UNCHANGED <<ONCE, SINGLETON, documents, overflow_checks, state_ref,
                   layout_paragraps, shaped, result, news>>
    /\ UNCHANGED <<wrapVars, glyphVars>>

\* ONCE.call_once finds the cell incomplete: this caller runs the closure.
CallOnceBegin(t) ==
    /\ pc[t] = "app_state"
    /\ ONCE = "incomplete"
    /\ ONCE' = "running"
    /\ pc' = [pc EXCEPT ![t] = "closure"]
    /\ UNCHANGED <<SINGLETON, documents, overflow_checks, call, state_ref,
                   layout_paragraps, shaped, result, news>>
    /\ UNCHANGED <<wrapVars, glyphVars>>

\* The closure: AppState::new() and SINGLETON.write (lines 410-411).
SingletonWrite(t) ==
    /\ pc[t] = "closure"
    /\ SINGLETON' = AppStateNew(documents)
    /\ news' = news + 1
    /\ pc' = [pc EXCEPT ![t] = "written"]
    /\ UNCHANGED <<ONCE, documents, overflow_checks, call, state_ref,
                   layout_paragraps, shaped, result>>
    /\ UNCHANGED <<wrapVars, glyphVars>>

\* The closure has returned: call_once marks the cell complete and returns.
CallOnceEnd(t) ==
    /\ pc[t] = "written"
    /\ ONCE' = "complete"
    /\ pc' = [pc EXCEPT ![t] = "assume_init"]
    /\ UNCHANGED <<SINGLETON, documents, overflow_checks, call, state_ref,
                   layout_paragraps, shaped, result, news>>
    /\ UNCHANGED <<wrapVars, glyphVars>>

\* ONCE.call_once finds the cell complete and returns at once; while another
\* caller is running the closure this caller is blocked.
CallOnceSkip(t) ==
    /\ pc[t] = "app_state"
    /\ OnceIsCompleted(ONCE)
    /\ pc' = [pc EXCEPT ![t] = "assume_init"]
    /\ UNCHANGED <<ONCE, SINGLETON, documents, overflow_checks, call, state_ref,
                   layout_paragraps, shaped, result, news>>
    /\ UNCHANGED <<wrapVars, glyphVars>>

\* SINGLETON.assume_init_mut() (line 414): `state` refers to the cell as it is.
AssumeInitMut(t) ==
    /\ pc[t] = "assume_init"
    /\ state_ref' = [state_ref EXCEPT ![t] =
                        IF SINGLETON.initialized THEN "initialized" ELSE "uninitialized"]
    /\ pc' = [pc EXCEPT ![t] = "resolve_input"]
    /\ UNCHANGED <<ONCE, SINGLETON, documents, overflow_checks, call,
                   layout_paragraps, shaped, result, news>>
    /\ UNCHANGED <<wrapVars, glyphVars>>

\* state.resolve_input(&input_transform, input) (line 45).  Reading a cell that
\* was never written is undefined behaviour: any outcome.
CallResolveInput(t) ==
    /\ pc[t] = "resolve_input"
    /\ IF SINGLETON.initialized
       THEN LET out == ResolveInput(SINGLETON, InputTransform(call[t]), call[t].input,
                                    overflow_checks)
            IN  /\ pc' = [pc EXCEPT ![t] = IF out.panic THEN "panicked" ELSE "returned"]
                /\ layout_paragraps' = [layout_paragraps EXCEPT ![t] = out.layout_paragraps]
                /\ shaped' = [shaped EXCEPT ![t] = out.layout]
                /\ result' = [result EXCEPT ![t] = out.layout.result]
       ELSE /\ \E outcome \in {"panicked", "returned"} : pc' = [pc EXCEPT ![t] = outcome]
            /\ UNCHANGED <<layout_paragraps, shaped, result>>
    /\ UNCHANGED <<ONCE, SINGLETON, documents, overflow_checks, call, state_ref, news>>
    /\ UNCHANGED <<wrapVars, glyphVars>>

\* The caller has its list and may call again.
Return(t) ==
    /\ pc[t] = "returned"
    /\ pc' = [pc EXCEPT ![t] = "idle"]
    /\ call' = [call EXCEPT ![t] = NoCall]
    /\ state_ref' = [state_ref EXCEPT ![t] = "none"]
    /\ layout_paragraps' = [layout_paragraps EXCEPT ![t] = <<>>]
    /\ shaped' = [shaped EXCEPT ![t] = NoLayout]
    /\ result' = [result EXCEPT ![t] = <<>>]
    /\ UNCHANGED <<ONCE, SINGLETON, documents, overflow_checks, news>>
    /\ UNCHANGED <<wrapVars, glyphVars>>

(***************************************************************************)
(* ParagraphInfo::new applied to a fragment list.                          *)
(***************************************************************************)
NoParagraph == [shaped_fragments |-> <<>>, lines |-> <<>>, is_rtl |-> FALSE]

Wrap(is_rtl) ==
    /\ paragraph = NoParagraph
    /\ paragraph' = ParagraphInfoNew(shaped_fragments, max_line_length, is_rtl)
    /\ UNCHANGED <<box_w, shaped_fragments, max_line_length>>
    /\ UNCHANGED <<progVars, glyphVars>>

(***************************************************************************)
(* GlyphPath::translate applied to a shaped glyph.                         *)
(***************************************************************************)
MaxTranslations == 3    \* translate() calls made on one glyph
MaxOffset == 1          \* largest coordinate of a translation vector

Offsets == {DVec2(x, y) : x \in (0 - MaxOffset)..MaxOffset, y \in (0 - MaxOffset)..MaxOffset}

TranslateGlyph(offset) ==
    /\ Len(translations) < MaxTranslations
    /\ glyph' = Translate(glyph, offset)
    /\ translations' = Append(translations,
                              [offset |-> offset, before |-> glyph.svg_path_string])
    /\ UNCHANGED <<progVars, wrapVars>>


(***************************************************************************)
(* Initial states and specifications.                                      *)
(***************************************************************************)
NumCallers == 2         \* concurrent callers of get_paths under Spec
MaxInput == 4           \* a document index past the last document, under Spec
MaxParagraphFonts == 2  \* longest paragraphs_fonts list under SpecFonts
MaxTextLen == 3         \* longest document text, in characters, under SpecText

NoGlyph == [svg_path_string |-> "", transform |-> DAffine2(DVec2(0, 0), DVec2(0, 0), DVec2(0, 0)),
            cmds |-> <<>>, advance_x |-> 0]

ProgramIdle ==
    /\ ONCE = "incomplete" /\ SINGLETON = Uninit /\ documents = <<>>
    /\ overflow_checks = FALSE /\ pc = <<>> /\ call = <<>> /\ state_ref = <<>>
    /\ layout_paragraps = <<>> /\ shaped = <<>> /\ result = <<>> /\ news = 0
WrapIdle ==
    /\ box_w = 0 /\ shaped_fragments = <<>> /\ max_line_length = 0
    /\ paragraph = NoParagraph
GlyphIdle == glyph = NoGlyph /\ translations = <<>>

\* The process starts with an untouched ONCE and SINGLETON and n callers outside get_paths.
ProgramStart(n, inputs) ==
    /\ ONCE = "incomplete" /\ SINGLETON = Uninit /\ news = 0
    /\ documents = inputs
    /\ overflow_checks \in BOOLEAN
    /\ pc = [t \in 1..n |-> "idle"]
    /\ call = [t \in 1..n |-> NoCall]
    /\ state_ref = [t \in 1..n |-> "none"]
    /\ layout_paragraps = [t \in 1..n |-> <<>>]
    /\ shaped = [t \in 1..n |-> NoLayout]
    /\ result = [t \in 1..n |-> <<>>]
    /\ WrapIdle /\ GlyphIdle

\* The four documents of lines 145-174, their texts shortened to a few characters
\* with the paragraph structure, the directions and the fonts of the originals.
ShippedInputs ==
    << Input(<<"a", "SP", "a">>, <<"seoul">>, "seoul"),
       Input(<<"alef", "SP", "alef">>, <<"noto">>, "noto"),
       Input(<<"a", "LF", "LF", "a", "SP", "a", "LF", "a", "LF", "LF">>,
             <<"pt", "pt", "pt", "pt", "pt", "pt">>, "pt"),
       Input(<<"a", "SP", "LF", "SP", "alef", "SP", "alef", "LF", "a", "SP", "a">>,
             <<"roboto-italic", "noto", "roboto">>, "roboto") >>

Calls(xs, ys, ws, hs, sizes, inputs) ==
    [x : xs, y : ys, w : ws, h : hs, size : sizes, input : inputs]

\* get_paths(0, 0, 600, 600, 16, input) as in tests/textbox.rs, for the first and
\* the last document and for the index MaxInput
ShippedCalls == Calls({0}, {0}, {600}, {600}, {16}, {0, 3, MaxInput})

Init == ProgramStart(NumCallers, ShippedInputs)
Next ==
    \E t \in 1..NumCallers :
        \/ \E c \in ShippedCalls : GetPaths(t, c)
        \/ CallOnceBegin(t)
        \/ SingletonWrite(t)
        \/ CallOnceEnd(t)
        \/ CallOnceSkip(t)
        \/ AssumeInitMut(t)
        \/ CallResolveInput(t)
        \/ Return(t)
Spec == Init /\ [][Next]_vars

\* Documents whose font ids vary over present and absent ones.
FontIds == {"pt", "noto", "comic"}
FontLists == UNION {[1..n -> FontIds] : n \in 0..MaxParagraphFonts}
FontTexts == { <<"a", "SP", "a">>, <<"a", "LF", "alef">> }
FontDocuments == { <<Input(text, fonts, fallback)>> :
                    text \in FontTexts, fonts \in FontLists, fallback \in FontIds }
FontCalls == Calls({0}, {0}, {600}, {100}, {16}, {0})

InitFonts == \E inputs \in FontDocuments : ProgramStart(1, inputs)
NextFonts ==
    \E t \in {1} :
        \/ \E c \in FontCalls : GetPaths(t, c)
        \/ CallOnceBegin(t)
        \/ SingletonWrite(t)
        \/ CallOnceEnd(t)
        \/ CallOnceSkip(t)
        \/ AssumeInitMut(t)
        \/ CallResolveInput(t)
        \/ Return(t)
SpecFonts == InitFonts /\ [][NextFonts]_vars

\* Documents whose texts vary, laid out in boxes of several places, widths and sizes.
HelloWorld == <<"H", "e", "l", "l", "o", "SP", "W", "o", "r", "l", "d">>
LayoutTexts ==
    { <<>>, HelloWorld,
      <<"alef", "SP", "alef", "alef", "SP", "alef">>,
      <<"a", "SP", "a", "LF", "alef", "SP", "alef">>,
      <<"W", "W", "SP", "a">>,
      <<"a", "LF">>,
      <<"a", "PS", "a">>,
      <<"LF", "a">> }
LayoutDocuments == { <<Input(text, <<"pt", "pt">>, "pt")>> : text \in LayoutTexts }
LayoutCalls == Calls({0, MaxI32 - 1000}, {0, 3}, {24, 40, 600, 2000}, {100},
                     {0, 4, 16}, {0})

InitLayout == \E inputs \in LayoutDocuments : ProgramStart(1, inputs)
NextLayout ==
    \E t \in {1} :
        \/ \E c \in LayoutCalls : GetPaths(t, c)
        \/ CallOnceBegin(t)
        \/ SingletonWrite(t)
        \/ CallOnceEnd(t)
        \/ CallOnceSkip(t)
        \/ AssumeInitMut(t)
        \/ CallResolveInput(t)
        \/ Return(t)
SpecLayout == InitLayout /\ [][NextLayout]_vars

\* Documents whose texts are all the texts of up to MaxTextLen characters over a
\* letter, a space and the two separators, each paragraph assigned "pt".
TextChars == {"a", "SP", "LF", "PS"}
Texts == UNION {[1..n -> TextChars] : n \in 0..MaxTextLen}
TextDocuments == { <<Input(text, [k \in 1..(MaxTextLen + 1) |-> "pt"], "pt")>> : text \in Texts }
TextCalls == Calls({0}, {0}, {600}, {100}, {4}, {0})

InitText == \E inputs \in TextDocuments : ProgramStart(1, inputs)
NextText ==
    \E t \in {1} :
        \/ \E c \in TextCalls : GetPaths(t, c)
        \/ CallOnceBegin(t)
        \/ SingletonWrite(t)
        \/ CallOnceEnd(t)
        \/ CallOnceSkip(t)
        \/ AssumeInitMut(t)
        \/ CallResolveInput(t)
        \/ Return(t)
SpecText == InitText /\ [][NextText]_vars

\* Fragment lists and box widths handed to ParagraphInfo::new.
Fragment(length) == [glyphs |-> <<>>, length |-> length]
Lengths == 0..MaxLength
FragmentLists == UNION {[1..n -> {Fragment(l) : l \in Lengths}] : n \in 0..MaxFragments}
Widths == {0 - 1} \cup ((2 * PAD - 1)..(2 * PAD + MaxLineLength))

InitWrap ==
    /\ ProgramIdle /\ GlyphIdle
    /\ box_w \in Widths
    /\ max_line_length = MaxLineLengthOf(box_w)
    /\ shaped_fragments \in FragmentLists
    /\ paragraph = NoParagraph
NextWrap == \E is_rtl \in BOOLEAN : Wrap(is_rtl)
SpecWrap == InitWrap /\ [][NextWrap]_vars

\* Shaped glyphs: those of the fragments "ao" and " a" at size 4.
Elements(seq) == {seq[k] : k \in 1..Len(seq)}
ShapedGlyphs ==
    UNION { Elements(PerformShaping(Shape(text, FALSE), size)) :
            text \in { <<"a", "o">>, <<"SP", "a">> }, size \in {4} }

InitGlyph ==
    /\ ProgramIdle /\ WrapIdle
    /\ glyph \in ShapedGlyphs
    /\ translations = <<>>
NextGlyph == \E offset \in Offsets : TranslateGlyph(offset)
SpecGlyph == InitGlyph /\ [][NextGlyph]_vars


(***************************************************************************)
(* Properties of ParagraphInfo::new, checked under SpecWrap.               *)
(***************************************************************************)
Wrapped == paragraph.lines # <<>>
FragmentCount == Len(paragraph.shaped_fragments)
NumLines == Len(paragraph.lines)
\* the effective range [RangeStart(k), RangeEnd(k)) of line k and its size
RangeStart(k) == paragraph.lines[k].first_fragment_index
RangeEnd(k) ==
    IF paragraph.lines[k].has_next_line THEN paragraph.lines[k].last_fragment_index
    ELSE FragmentCount
RangeSize(k) == RangeEnd(k) - RangeStart(k)
\* total fragment length of line k
RangeLength(k) == SumLengths(paragraph.shaped_fragments, RangeStart(k), RangeEnd(k))
FragmentLength(i) == paragraph.shaped_fragments[i + 1].length
NonNegativeLengths == \A i \in 0..(FragmentCount - 1) : FragmentLength(i) >= 0
PositiveLengths == \A i \in 0..(FragmentCount - 1) : FragmentLength(i) > 0

\* C1: the effective fragment ranges of the lines of a paragraph partition
\* 0..fragment_count: the first starts at 0, each ends where the next starts,
\* the last ends at fragment_count, and the first indices strictly increase;
\* this holds for every fragment list, the empty one included.
C1_RangesPartition ==
    Wrapped =>
        /\ RangeStart(1) = 0
        /\ RangeEnd(NumLines) = FragmentCount
        /\ \A k \in 1..NumLines : RangeStart(k) <= RangeEnd(k)
        /\ \A k \in 1..(NumLines - 1) :
            /\ RangeEnd(k) = RangeStart(k + 1)
            /\ RangeStart(k) < RangeStart(k + 1)
        /\ \A k \in 1..NumLines : LineStart(paragraph.lines[k]) = RangeStart(k)
                                  /\ LineEnd(paragraph, paragraph.lines[k]) = RangeEnd(k)

\* A paragraph wrapped into three lines, one of them holding two fragments.
C1_Witness ==
    /\ Wrapped /\ NumLines = 3 /\ FragmentCount = 4
    /\ \E k \in 1..NumLines : RangeSize(k) = 2

\* C4: with non-negative lengths, a line whose total length exceeds the maximum
\* holds exactly one fragment, itself wider than the maximum; a line of two or
\* more fragments has total length at most the maximum; a paragraph of one
\* over-wide fragment is one line holding that fragment.
C4_OverWideLinesAreSingle ==
    (Wrapped /\ NonNegativeLengths) =>
        /\ \A k \in 1..NumLines :
            /\ RangeLength(k) > max_line_length =>
                    RangeSize(k) = 1 /\ FragmentLength(RangeStart(k)) > max_line_length
            /\ RangeSize(k) >= 2 => RangeLength(k) <= max_line_length
        /\ (FragmentCount = 1 /\ FragmentLength(0) > max_line_length) =>
                NumLines = 1 /\ RangeStart(1) = 0 /\ RangeEnd(1) = 1

\* An over-wide fragment alone on the second line, after a line of two fragments.
C4_Witness ==
    /\ Wrapped /\ NonNegativeLengths /\ NumLines >= 2
    /\ RangeSize(1) = 2
    /\ RangeSize(2) = 1 /\ RangeLength(2) > max_line_length

\* C5: wrapping is greedy: the total length of a non-final line plus the length
\* of the first fragment of the next line exceeds the maximum; so a fragment
\* narrower than the maximum is alone on a line only if it is the last fragment
\* or the next fragment would not have fitted beside it.
C5_GreedyMaximal ==
    Wrapped =>
        /\ \A k \in 1..(NumLines - 1) :
            RangeLength(k) + FragmentLength(RangeStart(k + 1)) > max_line_length
        /\ \A k \in 1..NumLines :
            (RangeSize(k) = 1 /\ FragmentLength(RangeStart(k)) < max_line_length) =>
                \/ RangeEnd(k) = FragmentCount
                \/ FragmentLength(RangeStart(k)) + FragmentLength(RangeEnd(k))
                        > max_line_length

\* A narrow fragment alone on a non-final line, and a line filled exactly to the maximum.
C5_Witness ==
    /\ Wrapped /\ NumLines = 3
    /\ RangeSize(1) = 1 /\ FragmentLength(0) > 0 /\ FragmentLength(0) < max_line_length
    /\ RangeSize(2) = 2 /\ RangeLength(2) = max_line_length

\* C9 as stated: when w <= 2 * PAD the maximum is 0 and every line of every
\* non-empty paragraph holds exactly one fragment, whatever the lengths.
C9_OnePerLineWhateverLengths ==
    (Wrapped /\ box_w <= 2 * PAD) =>
        /\ max_line_length = 0
        /\ FragmentCount > 0 => \A k \in 1..NumLines : RangeSize(k) = 1

\* C9 amended: when w <= 2 * PAD the maximum is 0; every line holds exactly one
\* fragment if all lengths are positive; with non-negative lengths a line holds
\* several fragments only if all of them have length 0.
C9_OnePerLineForPositiveLengths ==
    (Wrapped /\ box_w <= 2 * PAD) =>
        /\ max_line_length = 0
        /\ (FragmentCount > 0 /\ PositiveLengths) =>
                \A k \in 1..NumLines : RangeSize(k) = 1
        /\ NonNegativeLengths =>
                \A k \in 1..NumLines :
                    RangeSize(k) >= 2 =>
                        \A i \in RangeStart(k)..(RangeEnd(k) - 1) : FragmentLength(i) = 0

\* A box of negative width and four fragments of positive length on four lines.
C9_Witness ==
    /\ Wrapped /\ box_w < 0 /\ max_line_length = 0
    /\ FragmentCount = 4 /\ PositiveLengths /\ NumLines = 4


(***************************************************************************)
(* Properties of GlyphPath::translate, checked under SpecGlyph.            *)
(***************************************************************************)
Neg(v) == DVec2(0 - v.x, 0 - v.y)
NumTranslations == Len(translations)
LastOffset == translations[NumTranslations].offset
\* the last two calls were translate(V) and translate(-V)
ThereAndBack ==
    /\ NumTranslations >= 2
    /\ LastOffset = Neg(translations[NumTranslations - 1].offset)
\* the path string before those two calls
StringBeforeBoth == translations[NumTranslations - 1].before
\* the translation the glyph's string carried before those two calls
OffsetBeforeBoth ==
    IF NumTranslations = 2 THEN DVec2(0, 0)
    ELSE translations[NumTranslations - 2].offset
\* the text of the stored commands with every point moved by v
MovedCmdsText(cmds, v) ==
    FormatCmds([k \in 1..Len(cmds) |->
        PathCmd(cmds[k].op,
                [j \in 1..Len(cmds[k].pts) |->
                    DVec2(cmds[k].pts[j].x + v.x, cmds[k].pts[j].y + v.y)])])

\* C7 as stated: translate(V) followed by translate(-V) leaves the path string
\* as it was before the two calls.
C7_TranslateBackRestores ==
    ThereAndBack => glyph.svg_path_string = StringBeforeBoth

\* C7 amended: translate(V) rebuilds the path string from the glyph's stored
\* commands moved by V, whatever was translated before; so after translate(V)
\* and translate(-V) the string is the stored outline moved by -V, and it equals
\* the string before the two calls only if the glyph has no outline or that
\* string was itself the outline moved by -V (for a glyph not translated
\* before: only if V = (0, 0)).
C7_TranslateIsAbsolute ==
    /\ NumTranslations >= 1 =>
            glyph.svg_path_string = MovedCmdsText(glyph.cmds, LastOffset)
    /\ ThereAndBack =>
            (glyph.svg_path_string = StringBeforeBoth
                <=> (glyph.cmds = <<>> \/ OffsetBeforeBoth = LastOffset))

\* A glyph with an outline translated by V # 0 and then by -V: its string is
\* the outline moved by -V, not the string it had before.
C7_Witness ==
    /\ ThereAndBack /\ LastOffset # DVec2(0, 0) /\ glyph.cmds # <<>>
    /\ NumTranslations = 2
    /\ glyph.svg_path_string # StringBeforeBoth
    /\ glyph.svg_path_string = MovedCmdsText(glyph.cmds, LastOffset)


(***************************************************************************)
(* Properties of get_paths, checked under Spec, SpecFonts and SpecLayout.  *)
(***************************************************************************)
Returned(t) == pc[t] = "returned"
\* the document a call names, when there is one
HasDocument(t) == SINGLETON.initialized /\ call[t].input < Len(SINGLETON.inputs)
DocumentOf(t) == SINGLETON.inputs[call[t].input + 1]
Registry == SINGLETON.fonts
Present(id) == id \in DOMAIN Registry
\* the font the claim expects for an assigned id and a document fallback id
FirstPresent(assigned, fallback) ==
    IF Present(assigned) THEN Registry[assigned]
    ELSE IF Present(fallback) THEN Registry[fallback]
    ELSE Registry["pt"]

\* C2: for every bidi paragraph of a document, resolve_input pairs the paragraph
\* with the first font present in the registry among the paragraph's assigned
\* id, the document's fallback id and "pt"; an assigned id that is present
\* resolves to its own font, and the font is always one of the registry.
C2_FirstPresentFont ==
    \A t \in Callers :
        Returned(t) =>
            \A k \in 1..Len(layout_paragraps[t]) :
                LET doc == DocumentOf(t)
                    assigned == doc.paragraphs_fonts[k]
                    font == layout_paragraps[t][k].font
                IN  /\ font = FirstPresent(assigned, doc.fallback_font)
                    /\ Present(assigned) => font = Registry[assigned]
                    /\ \E id \in DOMAIN Registry : font = Registry[id]

\* A document of two paragraphs: the first assigned an absent font with an
\* absent fallback (resolved to "pt"), the second assigned a present font
\* other than "pt" (resolved to itself).
C2_Witness ==
    \E t \in Callers :
        /\ Returned(t) /\ Len(layout_paragraps[t]) = 2
        /\ DocumentOf(t).paragraphs_fonts = <<"comic", "noto">>
        /\ DocumentOf(t).fallback_font = "comic"
        /\ layout_paragraps[t][1].font = Registry["pt"]
        /\ layout_paragraps[t][2].font = Registry["noto"]

\* C3: every call of get_paths, whatever its box, size and document index,
\* returns a list: no call ends in a panic.
C3_NoCallPanics == \A t \in Callers : pc[t] # "panicked"

\* the entries of a list of strings that are not the empty string
NonEmpty(strings) == SelectSeq(strings, LAMBDA str : str # "")
NonSpaceCount(text) == Cardinality({k \in 1..Len(text) : text[k] # "SP"})
\* the scenario: "Hello World" alone in the document, size 16, box 600 wide
HelloWorldCall(t) ==
    /\ Returned(t) /\ call[t].input = 0
    /\ DocumentOf(t).text = HelloWorld
    /\ call[t].size = 16 /\ call[t].w = 600
RECURSIVE GlyphCount(_)
\* the number of glyphs of a list of fragments
GlyphCount(fragments) ==
    IF fragments = <<>> THEN 0
    ELSE Len(Head(fragments).glyphs) + GlyphCount(Tail(fragments))

\* C6 as stated: in the scenario the returned list has exactly as many strings
\* as the paragraph has non-space glyphs.
C6_OneStringPerNonSpaceGlyph ==
    \A t \in Callers :
        HelloWorldCall(t) => Len(result[t]) = NonSpaceCount(HelloWorld)

\* C6 amended: in the scenario the returned list has one string per glyph, the
\* space included: the space's entry is the empty string, and the entries that
\* are not empty are as many as the non-space glyphs.
C6_OneStringPerGlyph ==
    \A t \in Callers :
        HelloWorldCall(t) =>
            /\ Len(shaped[t].shaped_paragraphs) = 1
            /\ Len(shaped[t].shaped_paragraphs[1].lines) = 1
            /\ Len(result[t]) = GlyphCount(shaped[t].shaped_paragraphs[1].shaped_fragments)
            /\ Len(result[t]) = Len(HelloWorld)
            /\ \A k \in 1..Len(HelloWorld) : (result[t][k] = "") <=> (HelloWorld[k] = "SP")
            /\ Len(NonEmpty(result[t])) = NonSpaceCount(HelloWorld)

\* The scenario has been laid out: eleven strings, the sixth empty.
C6_Witness ==
    \E t \in Callers :
        /\ HelloWorldCall(t)
        /\ Len(result[t]) = 11 /\ result[t][6] = "" /\ result[t][5] # ""

RECURSIVE SumDrawn(_)
\* the sum of the lengths of the fragments drawn on a line
SumDrawn(drawn) == IF drawn = <<>> THEN 0 ELSE Head(drawn).length + SumDrawn(Tail(drawn))

\* the running x before fragment j of a placed line
RunningX(line, is_rtl, j) ==
    IF j = 1 THEN line.anchor.x
    ELSE IF is_rtl THEN line.drawn[j - 1].offset.x
         ELSE line.drawn[j - 1].offset.x + line.drawn[j - 1].length

\* r is the exact sum a + b of two i32 values
IsSum(a, b, r) == ~I32AddOverflows(a, b) /\ r = a + b

\* C8: on every line of a right-to-left paragraph the running x starts at
\* x + w - PAD, each fragment is drawn at the running x minus its length, and
\* the start minus the final running x is the sum of the lengths on the line;
\* on a left-to-right line the running x starts at x + PAD, each fragment is
\* drawn at the running x, and the final running x minus the start is that sum.
C8_NoHorizontalDrift ==
    \A t \in Callers :
        Returned(t) =>
            \A n \in 1..Len(shaped[t].placed) :
                \A k \in 1..Len(shaped[t].placed[n]) :
                    LET line == shaped[t].placed[n][k]
                        is_rtl == shaped[t].shaped_paragraphs[n].is_rtl
                    IN  IF is_rtl
                        THEN /\ IsSum(call[t].x, call[t].w, line.anchor.x + PAD)
                             /\ \A j \in 1..Len(line.drawn) :
                                    line.drawn[j].offset.x
                                        = RunningX(line, is_rtl, j) - line.drawn[j].length
                             /\ line.anchor.x - line.final_x = SumDrawn(line.drawn)
                        ELSE /\ line.anchor.x = call[t].x + PAD
                             /\ \A j \in 1..Len(line.drawn) :
                                    line.drawn[j].offset.x = RunningX(line, is_rtl, j)
                             /\ line.final_x - line.anchor.x = SumDrawn(line.drawn)

\* C10: AppState::new runs at most once and has run once when any caller is
\* past call_once; a caller past call_once finds ONCE complete and the cell
\* written, and the reference it takes is to the written cell; once written,
\* SINGLETON is never changed by any step.
PastCallOnce(t) == pc[t] \in {"assume_init", "resolve_input", "returned", "panicked"}
C10_InitialisedOnce ==
    /\ news <= 1
    /\ \A t \in Callers :
        /\ PastCallOnce(t) =>
                news = 1 /\ ONCE = "complete" /\ SINGLETON = AppStateNew(documents)
        /\ state_ref[t] # "uninitialized"
C10_OneInitThenReadOnly ==
    /\ []C10_InitialisedOnce
    /\ [][SINGLETON.initialized => SINGLETON' = SINGLETON]_vars

\* Two callers raced through their first calls and both have their lists,
\* after one initialization.
C10_Witness ==
    /\ news = 1
    /\ \A t \in Callers : Returned(t) /\ state_ref[t] = "initialized"
    /\ Cardinality(Callers) >= 2

(***************************************************************************)
(* Properties of the displayed text of a paragraph, checked under SpecText.*)
(***************************************************************************)
\* the call has gone through resolve_input, to a list or to a panic
Resolved(t) == pc[t] \in {"returned", "panicked"} /\ HasDocument(t)
\* the bidi paragraphs of the document of a call, and the characters of one
ParagraphsOf(t) == BidiInfoNew(DocumentOf(t).text).paragraphs
ParagraphChars(t, k) ==
    Slice(DocumentOf(t).text, ParagraphsOf(t)[k].range.start, ParagraphsOf(t)[k].range.end)
IsSeparator(c) == BidiClass(c) = "B"
EndsWithSeparator(chars) == chars # <<>> /\ IsSeparator(chars[Len(chars)])
\* a paragraph's characters without its trailing separator, if it has one
WithoutSeparator(chars) ==
    IF EndsWithSeparator(chars) THEN SubSeq(chars, 1, Len(chars) - 1) ELSE chars
\* the call panicked taking the displayed slice of one of its paragraphs
SlicePanicked(t) ==
    /\ pc[t] = "panicked"
    /\ \E k \in 1..Len(ParagraphsOf(t)) :
            LET r == DisplayRange(DocumentOf(t).text, ParagraphsOf(t)[k].range,
                                  k - 1, Len(ParagraphsOf(t)))
            IN  ~SliceOk(DocumentOf(t).text, r.start, r.end)

\* C11: for every document text and every bidi paragraph of it, the displayed
\* text handed to shaping exists and is the paragraph's range without its
\* trailing separator character, whatever the separator: a non-final paragraph
\* loses exactly its separator, the final paragraph loses its last character
\* exactly when it ends with a separator.
C11_SeparatorTrimmed ==
    \A t \in Callers :
        Resolved(t) =>
            /\ ~SlicePanicked(t)
            /\ Returned(t) =>
                    /\ Len(layout_paragraps[t]) = Len(ParagraphsOf(t))
                    /\ \A k \in 1..Len(ParagraphsOf(t)) :
                            layout_paragraps[t][k].text
                                = WithoutSeparator(ParagraphChars(t, k))

\* C11 restricted to the documents whose only separator is U+000A.
OnlyNewlines(t) ==
    \A k \in 1..Len(DocumentOf(t).text) :
        IsSeparator(DocumentOf(t).text[k]) => DocumentOf(t).text[k] = "LF"
C11_NewlineTrimmed ==
    \A t \in Callers :
        (Resolved(t) /\ OnlyNewlines(t)) =>
            /\ Returned(t)
            /\ Len(layout_paragraps[t]) = Len(ParagraphsOf(t))
            /\ \A k \in 1..Len(ParagraphsOf(t)) :
                    layout_paragraps[t][k].text = WithoutSeparator(ParagraphChars(t, k))

\* The two ways C11 fails: a non-final paragraph closed by U+2029 makes the
\* call panic, and a final paragraph closed by U+2029 keeps its separator.
C11_NoSeparatorPanic == \A t \in Callers : Resolved(t) => ~SlicePanicked(t)
C11_FinalSeparatorTrimmed ==
    \A t \in Callers :
        (Returned(t) /\ HasDocument(t) /\ layout_paragraps[t] # <<>>) =>
            ~EndsWithSeparator(layout_paragraps[t][Len(layout_paragraps[t])].text)

(***************************************************************************)
(* Properties of the vertical cursor, checked under SpecLayout.            *)
(***************************************************************************)
RECURSIVE LinesBefore(_, _)
\* the number of lines of the paragraphs before paragraph n
LinesBefore(placed, n) ==
    IF n <= 1 THEN 0 ELSE Len(placed[n - 1]) + LinesBefore(placed, n - 1)
\* the baseline of line k, counted from 0 over the whole document
BaselineY(c, k) == c.y + PAD + (k + 1) * LineHeight(c.size)

\* C12: counting the lines of all paragraphs in document order from 0, a
\* paragraph without fragments counting as one line, every fragment (and so
\* every glyph) of line k is translated to y + PAD + (k + 1) * line_height,
\* whatever the direction of its paragraph.
C12_OneLineHeightPerLine ==
    \A t \in Callers :
        Returned(t) =>
            \A n \in 1..Len(shaped[t].placed) :
                /\ Len(shaped[t].placed[n]) >= 1
                /\ Len(shaped[t].placed[n]) = Len(shaped[t].shaped_paragraphs[n].lines)
                /\ \A k \in 1..Len(shaped[t].placed[n]) :
                        LET line == shaped[t].placed[n][k]
                            y == BaselineY(call[t], LinesBefore(shaped[t].placed, n) + k - 1)
                        IN  /\ line.anchor.y = y
                            /\ \A j \in 1..Len(line.drawn) : line.drawn[j].offset.y = y

\* A paragraph without fragments takes the first line and the next paragraph
\* is drawn on the second, in a box that is not at the top and with a size
\* that is not 0: y = 3 + 12 + 2 * 20.
C12_Witness ==
    \E t \in Callers :
        /\ Returned(t) /\ call[t].y = 3 /\ call[t].size = 16
        /\ Len(shaped[t].placed) = 2
        /\ shaped[t].shaped_paragraphs[1].shaped_fragments = <<>>
        /\ Len(shaped[t].placed[1]) = 1
        /\ Len(shaped[t].placed[2][1].drawn) >= 1
        /\ shaped[t].placed[2][1].drawn[1].offset.y = 55

\* Right-to-left lines below the first two lines of the document are drawn.
C12_WitnessRtl ==
    \E t \in Callers :
        /\ Returned(t) /\ call[t].y = 3 /\ call[t].size = 16
        /\ \E n \in 2..Len(shaped[t].placed) :
                /\ shaped[t].shaped_paragraphs[n].is_rtl
                /\ LinesBefore(shaped[t].placed, n) >= 2
                /\ Len(shaped[t].placed[n]) >= 2
                /\ shaped[t].placed[n][2].drawn # <<>>

====
